---- MODULE Spec2Model ----
(***************************************************************************)
(* Four machines of the OmicsAI server.                                    *)
(*                                                                         *)
(* Spec: the drug-repurposing engine of server/classification/views.py:    *)
(* drug_repurposing_engine (graph construction from the rows of the PPI    *)
(* table, bounded breadth-first traversal from the seed biomarkers,        *)
(* reconciliation into one candidate per gene, DGIdb enrichment, assembly  *)
(* of the response) and fetch_dgidb_drugs_via_graphql.  FairSpec is the    *)
(* same handler under weak fairness, for termination.                      *)
(* ConcurrentSpec: two requests to the engine sharing default_storage.     *)
(* AnalysisSpec: analyze_classification and generate_xai_graph.            *)
(* WorkflowSpec: the multi-agent workflow of graph.py.                     *)
(*                                                                         *)
(* Strings of the program are sequences of one-character strings, so that  *)
(* str.strip, str.upper and Python's lexical order are computed.  A float  *)
(* is a record [nan, val]: val counts units of 1.0, nan marks IEEE NaN.    *)
(***************************************************************************)
EXTENDS Integers, Sequences, FiniteSets, TLC

VARIABLES
    pc,              \* position of the request in the handler
    request,         \* the HTTP request: FILES and POST
    biomarkers,      \* the normalised biomarker list (lines 615-618)
    file_exists,     \* whether the temporary file is in storage
    ncols,           \* df.shape[1]
    nrows,           \* len(df)
    i,               \* number of rows the builder loop has consumed
    G,               \* the networkx graph: node -> neighbour -> edge data
    overwritten,     \* whether a row has replaced the data of an existing edge (history)
    last_cell,       \* per undirected pair: weight cell of the last row naming it (history)
    bi,              \* number of biomarkers the traversal loop has consumed
    candidates_map,  \* node -> best candidate info
    subgraph_nodes,  \* nodes within the cutoff of some biomarker
    dgidb_calls,     \* number of requests.post calls made
    dgidb_outcome,   \* how the enrichment call ended
    sent_genes,      \* the gene list of the query sent, <<>> when none was sent
    dgidb_nodes,     \* the gene nodes of the reply to the query
    dgidb_mapping,   \* the map fetch_dgidb_drugs_via_graphql returned
    exc,             \* the exception in flight, "" when none
    response         \* the JsonResponse returned

\* two requests to drug_repurposing_engine served at the same time
VARIABLES
    storage,         \* default_storage: path of each file -> the upload it holds
    cc_request,      \* per request: FILES and POST
    cc_pc,           \* per request: position in the handler
    cc_path,         \* per request: full_path, NoPath before the save
    cc_read,         \* per request: the upload pd.read_csv returned, NoUpload before
    cc_exc,          \* per request: the exception in flight, "" when none
    cc_response      \* per request: the JsonResponse returned

\* one request to analyze_classification or generate_xai_graph
VARIABLES
    an_pc,           \* position of the request in the handler
    an_request,      \* the HTTP request and what the analysis will meet
    an_file,         \* whether the saved upload is in storage
    an_db,           \* the committed rows of the database
    an_tx,           \* the rows as the open transaction sees them
    an_exc,          \* the exception in flight, "" when none
    an_response      \* the JsonResponse returned

\* one run of the multi-agent workflow of graph.py
VARIABLES
    wf_node,         \* the node about to run
    wf_state,        \* the GraphState: the keys set so far and their values
    wf_reply,        \* what the LLM answers to the router prompt
    wf_visited       \* the nodes that have run, in order

engine_vars == <<pc, request, biomarkers, file_exists, ncols, nrows, i, G, overwritten,
                 last_cell, bi, candidates_map, subgraph_nodes, dgidb_calls,
                 dgidb_outcome, sent_genes, dgidb_nodes, dgidb_mapping, exc, response>>

concurrent_vars == <<storage, cc_request, cc_pc, cc_path, cc_read, cc_exc, cc_response>>

analysis_vars == <<an_pc, an_request, an_file, an_db, an_tx, an_exc, an_response>>

workflow_vars == <<wf_node, wf_state, wf_reply, wf_visited>>

vars == <<engine_vars, concurrent_vars, analysis_vars, workflow_vars>>

\* each specification of this module runs one of the four machines; the
\* variables of the other three stay as they are
beside_engine == <<concurrent_vars, analysis_vars, workflow_vars>>
beside_concurrent == <<engine_vars, analysis_vars, workflow_vars>>
beside_analysis == <<engine_vars, concurrent_vars, workflow_vars>>
beside_workflow == <<engine_vars, concurrent_vars, analysis_vars>>

-----------------------------------------------------------------------------
(* Bounds of the explored input space *)

\* most rows of the PPI table
MaxRows == 3
\* most entries of the biomarker list sent by the caller
MaxSeeds == 2
\* most rows of the PPI table where termination is explored
LiveRows == 2

-----------------------------------------------------------------------------
(* Python strings *)

\* ord(c) for the characters that occur
Ord(c) ==
    CASE c = " " -> 32
      [] c = "," -> 44
      [] c = "A" -> 65
      [] c = "B" -> 66
      [] c = "C" -> 67
      [] c = "D" -> 68
      [] c = "a" -> 97
      [] c = "n" -> 110

\* str.upper on one character
UpperChar(c) == IF c = "a" THEN "A" ELSE c

\* str.upper
Upper(s) == [k \in 1..Len(s) |-> UpperChar(s[k])]

RECURSIVE LStrip(_)
LStrip(s) == IF s # <<>> /\ Head(s) = " " THEN LStrip(Tail(s)) ELSE s

RECURSIVE RStrip(_)
RStrip(s) ==
    IF s # <<>> /\ s[Len(s)] = " " THEN RStrip(SubSeq(s, 1, Len(s) - 1)) ELSE s

\* str.strip
Strip(s) == RStrip(LStrip(s))

\* s < t for Python strings: the first differing character decides, a proper
\* prefix is smaller
RECURSIVE StrLess(_, _)
StrLess(s, t) ==
    IF t = <<>> THEN FALSE
    ELSE IF s = <<>> THEN TRUE
    ELSE IF Head(s) # Head(t) THEN Ord(Head(s)) < Ord(Head(t))
    ELSE StrLess(Tail(s), Tail(t))

\* str.split(','), applied to the characters of s with the current piece cur
RECURSIVE SplitFrom(_, _)
SplitFrom(s, cur) ==
    IF s = <<>> THEN <<cur>>
    ELSE IF Head(s) = "," THEN <<cur>> \o SplitFrom(Tail(s), <<>>)
    ELSE SplitFrom(Tail(s), Append(cur, Head(s)))

Split(s) == SplitFrom(s, <<>>)

\* [f(x) for x in seq if x.strip()] with f = strip
RECURSIVE StripNonBlank(_)
StripNonBlank(seq) ==
    IF seq = <<>> THEN <<>>
    ELSE IF Strip(Head(seq)) # <<>>
         THEN <<Strip(Head(seq))>> \o StripNonBlank(Tail(seq))
         ELSE StripNonBlank(Tail(seq))

\* sorted(S) for a set of strings
RECURSIVE SortedStrings(_)
SortedStrings(S) ==
    IF S = {} THEN <<>>
    ELSE LET m == CHOOSE x \in S : \A y \in S : x = y \/ StrLess(x, y)
         IN <<m>> \o SortedStrings(S \ {m})

-----------------------------------------------------------------------------
(* Floats and the cells of the DataFrame *)

Float(v) == [nan |-> FALSE, val |-> v]
NaN == [nan |-> TRUE, val |-> 0]

\* an identifier cell as pandas holds it: a string, or NaN for an empty cell
TextCell(s) == [nan |-> FALSE, text |-> s]
NaNCell == [nan |-> TRUE, text |-> <<>>]

\* str(cell)
Str(cell) == IF cell.nan THEN <<"n", "a", "n">> ELSE cell.text

\* a weight cell: a number, NaN (empty cell), or text that is no number
NumCell(v) == [kind |-> "number", val |-> v]
EmptyCell == [kind |-> "nan", val |-> 0]
WordCell == [kind |-> "text", val |-> 0]
\* the table has no third column
NoCell == [kind |-> "absent", val |-> 0]

-----------------------------------------------------------------------------
(* networkx.Graph *)

EmptyMap == [x \in {} |-> x]

\* d[k] = x on a dict
SetKey(d, k, x) == [y \in (DOMAIN d) \cup {k} |-> IF y = k THEN x ELSE d[y]]

\* edge data: the attribute dict of an edge
NoData == [has_weight |-> FALSE, weight |-> Float(0)]
WeightData(w) == [has_weight |-> TRUE, weight |-> w]

\* datadict.update(attr)
UpdateData(datadict, attr) == IF attr.has_weight THEN attr ELSE datadict

AddNode(adj, n) == IF n \in DOMAIN adj THEN adj ELSE SetKey(adj, n, EmptyMap)

\* add_edge keeping the data an existing edge already has (first weight wins)
add_edge_first_wins(adj, u, v, attr) ==
    LET a1 == AddNode(AddNode(adj, u), v)
        datadict == IF v \in DOMAIN a1[u] THEN a1[u][v] ELSE UpdateData(NoData, attr)
        a2 == [a1 EXCEPT ![u] = SetKey(@, v, datadict)]
    IN [a2 EXCEPT ![v] = SetKey(@, u, datadict)]

\* G.add_edge(u, v, **attr)
add_edge(adj, u, v, attr) ==
    LET a1 == AddNode(AddNode(adj, u), v)
        old == IF v \in DOMAIN a1[u] THEN a1[u][v] ELSE NoData
        datadict == UpdateData(old, attr)
        a2 == [a1 EXCEPT ![u] = SetKey(@, v, datadict)]
    IN [a2 EXCEPT ![v] = SetKey(@, u, datadict)]

\* G.degree(n): a self-loop counts twice
degree(adj, n) == Cardinality(DOMAIN adj[n]) + (IF n \in DOMAIN adj[n] THEN 1 ELSE 0)

RECURSIVE SumDegrees(_, _)
SumDegrees(adj, S) ==
    IF S = {} THEN 0
    ELSE LET n == CHOOSE x \in S : TRUE
         IN degree(adj, n) + SumDegrees(adj, S \ {n})

\* G.number_of_edges()
number_of_edges(adj) == SumDegrees(adj, DOMAIN adj) \div 2

\* G.number_of_nodes()
number_of_nodes(adj) == Cardinality(DOMAIN adj)

\* the undirected pairs {u, v} that are edges of the graph ({u} for a self-loop)
EdgePairs(adj) ==
    {{p[1], p[2]} : p \in {q \in (DOMAIN adj) \X (DOMAIN adj) : q[2] \in DOMAIN adj[q[1]]}}

\* the subgraph over the nodes and every neighbour of one of them
subgraph_with_neighbours(adj, nodes) ==
    LET wider == nodes \cup UNION {DOMAIN adj[n] : n \in (DOMAIN adj) \cap nodes}
    IN [n \in (DOMAIN adj) \cap wider |->
           [m \in (DOMAIN adj[n]) \cap wider |-> adj[n][m]]]

\* G.subgraph(nodes).copy()
subgraph(adj, nodes) ==
    [n \in (DOMAIN adj) \cap nodes |->
        [m \in (DOMAIN adj[n]) \cap nodes |-> adj[n][m]]]

-----------------------------------------------------------------------------
(* Traversal and reconciliation, lines 660-690 *)

\* max_hops = 2
max_hops == 2

\* nx.single_source_shortest_path_length level by level: lengths holds the
\* nodes seen with their level, frontier the nodes of the current level
RECURSIVE BfsLevels(_, _, _, _, _)
BfsLevels(adj, lengths, frontier, level, cutoff) ==
    IF frontier = {} \/ ~(cutoff > level) THEN lengths
    ELSE LET found == (UNION {DOMAIN adj[v] : v \in frontier}) \ DOMAIN lengths
             seen == [n \in (DOMAIN lengths) \cup found |->
                         IF n \in found THEN level + 1 ELSE lengths[n]]
         IN BfsLevels(adj, seen, found, level + 1, cutoff)

\* the cutoff is ignored
shortest_path_length_no_cutoff(adj, source, cutoff) ==
    BfsLevels(adj, [n \in {source} |-> 0], {source}, 0, Cardinality(DOMAIN adj))

\* nx.single_source_shortest_path_length(G, source, cutoff)
single_source_shortest_path_length(adj, source, cutoff) ==
    BfsLevels(adj, [n \in {source} |-> 0], {source}, 0, cutoff)

\* score = 1.0 / (dist + 1e-6), in thousandths, truncated
Score(dist) == 1000000000 \div (dist * 1000000 + 1)

\* the evidence sentence f'Nearest biomarker: {biomarker}, shortest path length: {dist}'
Evidence(biomarker, dist) == [nearest |-> biomarker, length |-> dist]

None == [none |-> TRUE, text |-> <<>>]
Some(s) == [none |-> FALSE, text |-> s]

\* the record written at lines 683-690; the keys drug_list, drug_count and
\* drug_details exist once enriched is TRUE (lines 713-716 add them)
NewCandidate(node, biomarker, dist) ==
    [drug_name |-> None,
     target |-> node,
     nearest_biomarker |-> biomarker,
     hops_from_biomarker |-> dist,
     score |-> Score(dist),
     evidence |-> Evidence(biomarker, dist),
     drug_list |-> <<>>,
     drug_count |-> 0,
     drug_details |-> <<>>,
     enriched |-> FALSE]

\* existing is None or score > existing['score']
Replaces(cmap, node, dist) ==
    node \notin DOMAIN cmap \/ Score(dist) > cmap[node].score

\* if node == biomarker: continue
Skipped(node, biomarker) == node = biomarker

\* the body of `for biomarker in biomarkers`, lines 666-690, for a biomarker
\* that is in G; every node occurs once in lengths, so the inner loop is a
\* map over its items
VisitBiomarker(adj, cmap, biomarker) ==
    LET lengths == single_source_shortest_path_length(adj, biomarker, max_hops)
        hit == {n \in DOMAIN lengths :
                   ~Skipped(n, biomarker) /\ Replaces(cmap, n, lengths[n])}
    IN [cmap |-> [n \in (DOMAIN cmap) \cup hit |->
                     IF n \in hit THEN NewCandidate(n, biomarker, lengths[n])
                     ELSE cmap[n]],
        visited |-> DOMAIN lengths]

\* the loop stops at the biomarker's own entry instead of passing over it
RECURSIVE VisitInOrder_break_at_seed(_, _, _, _)
VisitInOrder_break_at_seed(cmap, biomarker, lengths, order) ==
    IF order = <<>> THEN cmap
    ELSE LET node == Head(order)
             dist == lengths[node]
         IN IF Skipped(node, biomarker)
            THEN cmap
            ELSE VisitInOrder_break_at_seed(
                     IF Replaces(cmap, node, dist)
                     THEN SetKey(cmap, node, NewCandidate(node, biomarker, dist))
                     ELSE cmap,
                     biomarker, lengths, Tail(order))

\* the loop `for node, dist in lengths.items()` of lines 673-690, one entry
\* after the other in the order the dict yields them
RECURSIVE VisitInOrder(_, _, _, _)
VisitInOrder(cmap, biomarker, lengths, order) ==
    IF order = <<>> THEN cmap
    ELSE LET node == Head(order)
             dist == lengths[node]
         IN IF Skipped(node, biomarker)
            THEN VisitInOrder(cmap, biomarker, lengths, Tail(order))
            ELSE VisitInOrder(
                     IF Replaces(cmap, node, dist)
                     THEN SetKey(cmap, node, NewCandidate(node, biomarker, dist))
                     ELSE cmap,
                     biomarker, lengths, Tail(order))

-----------------------------------------------------------------------------
(* sorted(candidates_map.values(), key=...), lines 738-741 *)

\* the key without the gene identifier
CandidateKeyLess_no_target(x, y) ==
    \/ x.hops_from_biomarker < y.hops_from_biomarker
    \/ /\ x.hops_from_biomarker = y.hops_from_biomarker
       /\ (0 - x.score) < (0 - y.score)

\* key(x) < key(y) for key = (hops_from_biomarker, -score, target)
CandidateKeyLess(x, y) ==
    \/ x.hops_from_biomarker < y.hops_from_biomarker
    \/ /\ x.hops_from_biomarker = y.hops_from_biomarker
       /\ \/ (0 - x.score) < (0 - y.score)
          \/ /\ (0 - x.score) = (0 - y.score)
             /\ StrLess(x.target, y.target)

\* x put into the sorted sequence s behind every element that is not greater
\* (the sort is stable)
RECURSIVE InsertCandidate(_, _)
InsertCandidate(s, x) ==
    IF s = <<>> THEN <<x>>
    ELSE IF CandidateKeyLess(x, s[Len(s)])
         THEN Append(InsertCandidate(SubSeq(s, 1, Len(s) - 1), x), s[Len(s)])
         ELSE Append(s, x)

RECURSIVE SortCandidates(_)
SortCandidates(seq) ==
    IF seq = <<>> THEN <<>>
    ELSE InsertCandidate(SortCandidates(SubSeq(seq, 1, Len(seq) - 1)), seq[Len(seq)])

\* the sequences that list every element of the set S once: the orders in
\* which a dict with the keys S can be iterated
Orders(S) == {s \in [1..Cardinality(S) -> S] : \A x \in S : \E k \in DOMAIN s : s[k] = x}


-----------------------------------------------------------------------------
(* fetch_dgidb_drugs_via_graphql, lines 479-586 *)

\* MAX_DRUGS_PER_TARGET = 3
MAX_DRUGS_PER_TARGET == 3

Null == [null |-> TRUE, val |-> 0]
Num(v) == [null |-> FALSE, val |-> v]

\* one interaction of the reply; drug_name "" stands for a missing name
Interaction(name, score) == [drug_name |-> name, score |-> score]

\* how the call can end: the reply kinds and, for a 200 reply with JSON data,
\* the gene nodes (each the list of its interactions)
Reply(kind, nodes) == [kind |-> kind, nodes |-> nodes]

DgidbReplies ==
    { Reply("network_error", <<>>),
      Reply("http_error", <<>>),
      Reply("non_json", <<>>),
      Reply("errors", <<>>),
      Reply("null_data", <<>>),
      Reply("ok", <<>>),
      Reply("ok", << <<Interaction("X", Num(2)), Interaction("Y", Null),
                       Interaction("", Num(9)), Interaction("Z", Num(5)),
                       Interaction("W", Num(0))>> >>),
      Reply("ok", << <<Interaction("X", Num(2))>>, <<Interaction("X", Num(2))>> >>) }

\* unique_genes = sorted({str(g).strip() for g in genes if str(g).strip()})
UniqueGenes(genes) == SortedStrings({Strip(g) : g \in {h \in genes : Strip(h) # <<>>}})

\* nodes.index(gene_node): the first position holding an equal node
IndexOf(nodes, gene_node) ==
    CHOOSE k \in 1..Len(nodes) :
        nodes[k] = gene_node /\ \A j \in 1..(k - 1) : nodes[j] # gene_node

\* lines 565-567: every requested gene gets a list
WithGeneKeys(map, unique_genes) ==
    [g \in (DOMAIN map) \cup {unique_genes[k] : k \in 1..Len(unique_genes)} |->
        IF g \in DOMAIN map THEN map[g] ELSE <<>>]

\* lines 555-584 for one interaction of the node at position n; acc is
\* [raised, map], raised naming the exception that ended the parse
ParseInteraction(acc, nodes, n, inter, unique_genes) ==
    IF acc.raised # "" \/ inter.drug_name = "" THEN acc
    ELSE LET map == WithGeneKeys(acc.map, unique_genes)
             gene_index == IndexOf(nodes, nodes[n])
         IN IF gene_index <= Len(unique_genes)
            THEN LET gene_name == Upper(unique_genes[gene_index])
                 IN IF gene_name \in DOMAIN map
                    THEN [raised |-> "",
                          map |-> [map EXCEPT ![gene_name] = Append(@, inter)]]
                    ELSE [raised |-> "KeyError", map |-> map]
            ELSE [raised |-> "", map |-> map]

\* the two loops of lines 551-584, from interaction k of node n on
RECURSIVE ParseNodes(_, _, _, _, _)
ParseNodes(acc, nodes, n, k, unique_genes) ==
    IF n > Len(nodes) THEN acc
    ELSE IF k > Len(nodes[n]) THEN ParseNodes(acc, nodes, n + 1, 1, unique_genes)
    ELSE ParseNodes(ParseInteraction(acc, nodes, n, nodes[n][k], unique_genes),
                    nodes, n, k + 1, unique_genes)

\* the query is posted also for an empty gene list
fetch_without_empty_check(genes, reply) ==
    IF reply.kind \in {"network_error", "http_error", "non_json", "errors"}
    THEN [called |-> TRUE, raised |-> "", map |-> EmptyMap]
    ELSE IF reply.kind = "null_data"
    THEN [called |-> TRUE, raised |-> "AttributeError", map |-> EmptyMap]
    ELSE LET parsed == ParseNodes([raised |-> "", map |-> EmptyMap], reply.nodes,
                                  1, 1, UniqueGenes(genes))
         IN [called |-> TRUE, raised |-> parsed.raised, map |-> parsed.map]

\* a network error is not caught and leaves the function
fetch_network_error_raises(genes, reply) ==
    IF genes = {} \/ UniqueGenes(genes) = <<>>
    THEN [called |-> FALSE, raised |-> "", map |-> EmptyMap]
    ELSE IF reply.kind \in {"http_error", "non_json", "errors"}
    THEN [called |-> TRUE, raised |-> "", map |-> EmptyMap]
    ELSE IF reply.kind = "network_error"
    THEN [called |-> TRUE, raised |-> "ConnectionError", map |-> EmptyMap]
    ELSE IF reply.kind = "null_data"
    THEN [called |-> TRUE, raised |-> "AttributeError", map |-> EmptyMap]
    ELSE LET parsed == ParseNodes([raised |-> "", map |-> EmptyMap], reply.nodes,
                                  1, 1, UniqueGenes(genes))
         IN [called |-> TRUE, raised |-> parsed.raised, map |-> parsed.map]

\* fetch_dgidb_drugs_via_graphql(genes) when the service answers with reply:
\* [called, raised, map]
fetch_dgidb_drugs_via_graphql(genes, reply) ==
    IF genes = {} \/ UniqueGenes(genes) = <<>>
    THEN [called |-> FALSE, raised |-> "", map |-> EmptyMap]
    ELSE IF reply.kind \in {"network_error", "http_error", "non_json", "errors"}
    THEN [called |-> TRUE, raised |-> "", map |-> EmptyMap]
    ELSE IF reply.kind = "null_data"
    THEN [called |-> TRUE, raised |-> "AttributeError", map |-> EmptyMap]
    ELSE LET parsed == ParseNodes([raised |-> "", map |-> EmptyMap], reply.nodes,
                                  1, 1, UniqueGenes(genes))
         IN [called |-> TRUE, raised |-> parsed.raised, map |-> parsed.map]

-----------------------------------------------------------------------------
(* Enrichment of the candidates, lines 692-716 *)

\* d.get("score") or 0
ScoreOrZero(d) == IF d.score.null THEN 0 ELSE d.score.val

\* x put into s, sorted by descending key, behind every element whose key is
\* not smaller (sorted(..., reverse=True) keeps equal keys in their order)
RECURSIVE InsertDrug(_, _)
InsertDrug(s, x) ==
    IF s = <<>> THEN <<x>>
    ELSE IF ScoreOrZero(s[Len(s)]) < ScoreOrZero(x)
         THEN Append(InsertDrug(SubSeq(s, 1, Len(s) - 1), x), s[Len(s)])
         ELSE Append(s, x)

RECURSIVE SortDrugs(_)
SortDrugs(seq) ==
    IF seq = <<>> THEN <<>>
    ELSE InsertDrug(SortDrugs(SubSeq(seq, 1, Len(seq) - 1)), seq[Len(seq)])

\* ", ".join(names)
RECURSIVE Join(_)
Join(names) ==
    IF names = <<>> THEN <<>>
    ELSE IF Len(names) = 1 THEN <<names[1]>>
    ELSE <<names[1], ", ">> \o Join(Tail(names))

\* dgidb_mapping.get(gene) or dgidb_mapping.get(gene.upper()) or []
DrugsInfo(mapping, gene) ==
    IF gene \in DOMAIN mapping /\ mapping[gene] # <<>> THEN mapping[gene]
    ELSE IF Upper(gene) \in DOMAIN mapping THEN mapping[Upper(gene)]
    ELSE <<>>

\* drug_details holds the sorted, truncated list
Enriched_details_truncated(info, mapping) ==
    LET drugs_info == DrugsInfo(mapping, info.target)
        drugs_info_sorted == SortDrugs(drugs_info)
        top_drugs_info ==
            SubSeq(drugs_info_sorted, 1,
                   IF Len(drugs_info_sorted) < MAX_DRUGS_PER_TARGET
                   THEN Len(drugs_info_sorted) ELSE MAX_DRUGS_PER_TARGET)
        simple_names == [k \in 1..Len(top_drugs_info) |-> top_drugs_info[k].drug_name]
    IN [info EXCEPT !.drug_name = IF simple_names # <<>> THEN Some(Join(simple_names))
                                  ELSE None,
                    !.drug_list = simple_names,
                    !.drug_count = Len(simple_names),
                    !.drug_details = top_drugs_info,
                    !.enriched = TRUE]

\* lines 698-716 for one candidate
Enriched(info, mapping) ==
    LET drugs_info == DrugsInfo(mapping, info.target)
        drugs_info_sorted == SortDrugs(drugs_info)
        top_drugs_info ==
            SubSeq(drugs_info_sorted, 1,
                   IF Len(drugs_info_sorted) < MAX_DRUGS_PER_TARGET
                   THEN Len(drugs_info_sorted) ELSE MAX_DRUGS_PER_TARGET)
        simple_names == [k \in 1..Len(top_drugs_info) |-> top_drugs_info[k].drug_name]
    IN [info EXCEPT !.drug_name = IF simple_names # <<>> THEN Some(Join(simple_names))
                                  ELSE None,
                    !.drug_list = simple_names,
                    !.drug_count = Len(simple_names),
                    !.drug_details = drugs_info,
                    !.enriched = TRUE]


-----------------------------------------------------------------------------
(* Assembly of the response, lines 718-758 *)

\* float(data.get('weight', 1.0))
ReportedWeight(data) == IF data.has_weight THEN data.weight ELSE Float(1)

\* node_list, as the set of its entries
NodeList(H, bms) ==
    {[id |-> n, label |-> n,
      is_biomarker |-> (\E k \in 1..Len(bms) : bms[k] = n),
      degree |-> degree(H, n)] : n \in DOMAIN H}

\* edge_list, as the set of its entries; ends is {source, target}
EdgeList(H) ==
    {[ends |-> e,
      weight |-> LET u == CHOOSE x \in e : TRUE
                     v == CHOOSE y \in e : e = {u, y}
                 IN ReportedWeight(H[u][v])] : e \in EdgePairs(H)}

\* the body of the success response; values is candidates_map.values() in the
\* order the dict is iterated
SuccessResponse(adj, bms, nodes, cmap, order) ==
    LET H == subgraph(adj, nodes)
        values == [k \in 1..Len(order) |-> cmap[order[k]]]
    IN [http |-> 200,
        status |-> "success",
        biomarkers |-> bms,
        num_nodes |-> number_of_nodes(adj),
        num_edges |-> number_of_edges(adj),
        nodes |-> NodeList(H, bms),
        edges |-> EdgeList(H),
        candidates |-> SortCandidates(values)]

\* JsonResponse({'error': ...}, status=code)
ErrorResponse(code, message) == [http |-> code, error |-> message]

NoResponse == [http |-> 0, error |-> ""]

-----------------------------------------------------------------------------
(* The requests explored *)

Gene(c) == <<c>>

\* the entries a biomarker list is made of: a gene, a gene with a leading
\* blank
SeedCells == {<<"A">>, <<" ", "D">>}

\* request.POST['biomarkers'] after json.loads: no JSON, a list of strings, or
\* one comma-separated string
NoJson == [kind |-> "invalid", items |-> <<>>]
JsonList(items) == [kind |-> "list", items |-> items]
JsonStr(text) == [kind |-> "str", items |-> <<text>>]

BiomarkerInputs ==
    {JsonList(l) : l \in UNION {[1..n -> SeedCells] : n \in 0..MaxSeeds}}
    \cup {JsonList(<<<<" ">>>>), JsonList(<<<<" ">>, <<"A", " ">>>>),
          JsonStr(<<"A", ",", " ", "D", ",">>), JsonStr(<<" ", ",">>), NoJson}

Requests ==
    {[has_file |-> TRUE, is_csv |-> TRUE, biomarkers |-> b] : b \in BiomarkerInputs}
    \cup {[has_file |-> f, is_csv |-> c, biomarkers |-> JsonList(<<Gene("A")>>)] :
             f \in BOOLEAN, c \in BOOLEAN}

\* the entries are trimmed but the blank ones are kept
Normalise_keep_blanks(raw) ==
    LET items == IF raw.kind = "str" THEN Split(raw.items[1]) ELSE raw.items
    IN [k \in 1..Len(items) |-> Strip(items[k])]

\* lines 615-618
Normalise(raw) ==
    IF raw.kind = "str" THEN StripNonBlank(StripNonBlank(Split(raw.items[1])))
    ELSE StripNonBlank(raw.items)

\* the identifier cells of a row: tables with a weight column are explored
\* over two genes, one of them in lower case, tables without one over four
IdCells(c) ==
    IF c > 2
    THEN {TextCell(<<"A">>), TextCell(<<"a", " ">>), TextCell(<<" ">>), NaNCell}
    ELSE {TextCell(<<"A">>), TextCell(<<"B", " ">>), TextCell(<<"C">>),
          TextCell(<<" ", "D">>), TextCell(<<" ">>), NaNCell}

WeightCells(c) == IF c > 2 THEN {NumCell(2), EmptyCell, WordCell} ELSE {NoCell}

-----------------------------------------------------------------------------
(* The machines at rest *)

NoPath == [uuid |-> "", name |-> "", alt |-> ""]
NoUpload == "none"
Procs == {"r1", "r2"}

EngineAtRest ==
    /\ pc = "idle"
    /\ request = [has_file |-> FALSE, is_csv |-> FALSE, biomarkers |-> NoJson]
    /\ biomarkers = <<>>
    /\ file_exists = FALSE
    /\ ncols = 0
    /\ nrows = 0
    /\ i = 0
    /\ G = EmptyMap
    /\ overwritten = FALSE
    /\ last_cell = EmptyMap
    /\ bi = 0
    /\ candidates_map = EmptyMap
    /\ subgraph_nodes = {}
    /\ dgidb_calls = 0
    /\ dgidb_outcome = "none"
    /\ sent_genes = <<>>
    /\ dgidb_nodes = <<>>
    /\ dgidb_mapping = EmptyMap
    /\ exc = ""
    /\ response = NoResponse

ConcurrentAtRest ==
    /\ storage = EmptyMap
    /\ cc_request = EmptyMap
    /\ cc_pc = [p \in Procs |-> "idle"]
    /\ cc_path = [p \in Procs |-> NoPath]
    /\ cc_read = [p \in Procs |-> NoUpload]
    /\ cc_exc = [p \in Procs |-> ""]
    /\ cc_response = [p \in Procs |-> NoResponse]

AnalysisAtRest ==
    /\ an_pc = "idle"
    /\ an_request = EmptyMap
    /\ an_file = FALSE
    /\ an_db = EmptyMap
    /\ an_tx = EmptyMap
    /\ an_exc = ""
    /\ an_response = NoResponse

WorkflowAtRest ==
    /\ wf_node = "idle"
    /\ wf_state = EmptyMap
    /\ wf_reply = <<>>
    /\ wf_visited = <<>>

-----------------------------------------------------------------------------
(* The handler drug_repurposing_engine, step by step *)

Init ==
    /\ ConcurrentAtRest /\ AnalysisAtRest /\ WorkflowAtRest
    /\ pc = "start"
    /\ request \in Requests
    /\ biomarkers = <<>>
    /\ file_exists = FALSE
    /\ ncols = 0
    /\ nrows = 0
    /\ i = 0
    /\ G = EmptyMap
    /\ overwritten = FALSE
    /\ last_cell = EmptyMap
    /\ bi = 0
    /\ candidates_map = EmptyMap
    /\ subgraph_nodes = {}
    /\ dgidb_calls = 0
    /\ dgidb_outcome = "none"
    /\ sent_genes = <<>>
    /\ dgidb_nodes = <<>>
    /\ dgidb_mapping = EmptyMap
    /\ exc = ""
    /\ response = NoResponse

Return(r) == /\ response' = r
             /\ pc' = "done"

\* lines 599-600
RejectNoFile ==
    /\ pc = "start"
    /\ UNCHANGED beside_engine
    /\ ~request.has_file
    /\ Return(ErrorResponse(400, "No PPI file uploaded (ppi_file required)"))
    /\ UNCHANGED <<request, biomarkers, file_exists, ncols, nrows, i, G, overwritten,
                   last_cell, bi, candidates_map, subgraph_nodes, dgidb_calls,
                   dgidb_outcome, sent_genes,
                   dgidb_nodes, dgidb_mapping, exc>>

\* lines 604-605
RejectNotCsv ==
    /\ pc = "start"
    /\ UNCHANGED beside_engine
    /\ request.has_file /\ ~request.is_csv
    /\ Return(ErrorResponse(400, "Only CSV files are allowed"))
    /\ UNCHANGED <<request, biomarkers, file_exists, ncols, nrows, i, G, overwritten,
                   last_cell, bi, candidates_map, subgraph_nodes, dgidb_calls,
                   dgidb_outcome, sent_genes,
                   dgidb_nodes, dgidb_mapping, exc>>

\* lines 609-613
RejectBadJson ==
    /\ pc = "start"
    /\ UNCHANGED beside_engine
    /\ request.has_file /\ request.is_csv
    /\ request.biomarkers.kind = "invalid"
    /\ Return(ErrorResponse(400, "Invalid biomarkers JSON"))
    /\ UNCHANGED <<request, biomarkers, file_exists, ncols, nrows, i, G, overwritten,
                   last_cell, bi, candidates_map, subgraph_nodes, dgidb_calls,
                   dgidb_outcome, sent_genes,
                   dgidb_nodes, dgidb_mapping, exc>>

\* lines 615-621
RejectNoBiomarkers ==
    /\ pc = "start"
    /\ UNCHANGED beside_engine
    /\ request.has_file /\ request.is_csv
    /\ request.biomarkers.kind # "invalid"
    /\ Normalise(request.biomarkers) = <<>>
    /\ biomarkers' = Normalise(request.biomarkers)
    /\ Return(ErrorResponse(400, "At least one biomarker is required"))
    /\ UNCHANGED <<request, file_exists, ncols, nrows, i, G, overwritten,
                   last_cell, bi, candidates_map, subgraph_nodes, dgidb_calls,
                   dgidb_outcome, sent_genes,
                   dgidb_nodes, dgidb_mapping, exc>>

\* lines 599-626 when the request passes validation: the upload is saved
SaveUpload ==
    /\ pc = "start"
    /\ UNCHANGED beside_engine
    /\ request.has_file /\ request.is_csv
    /\ request.biomarkers.kind # "invalid"
    /\ Normalise(request.biomarkers) # <<>>
    /\ biomarkers' = Normalise(request.biomarkers)
    /\ file_exists' = TRUE
    /\ pc' = "read"
    /\ UNCHANGED <<request, ncols, nrows, i, G, overwritten, last_cell, bi,
                   candidates_map, subgraph_nodes, dgidb_calls, dgidb_outcome, sent_genes,
                   dgidb_nodes, dgidb_mapping,
                   exc, response>>

Raise(e) == /\ exc' = e
            /\ pc' = "finally"

\* line 629 when pd.read_csv raises (a file without columns, a parse error)
ReadCsvFails ==
    /\ pc = "read"
    /\ UNCHANGED beside_engine
    /\ Raise("read_csv error")
    /\ UNCHANGED <<request, biomarkers, file_exists, ncols, nrows, i, G, overwritten,
                   last_cell, bi, candidates_map, subgraph_nodes, dgidb_calls,
                   dgidb_outcome, sent_genes,
                   dgidb_nodes, dgidb_mapping, response>>

\* lines 629-642 for a table of r rows and c columns
ReadCsv ==
    /\ pc = "read"
    /\ UNCHANGED beside_engine
    /\ \E r \in 0..MaxRows, c \in 1..3 :
         /\ nrows' = r
         /\ ncols' = c
         /\ IF r = 0 THEN Raise("PPI CSV file is empty")
            ELSE IF c < 2
            THEN Raise("PPI CSV must have at least two columns (source, target)")
            ELSE pc' = "build" /\ exc' = exc
    /\ G' = EmptyMap
    /\ UNCHANGED <<request, biomarkers, file_exists, i, overwritten, last_cell, bi,
                   candidates_map, subgraph_nodes, dgidb_calls, dgidb_outcome, sent_genes,
                   dgidb_nodes, dgidb_mapping,
                   response>>

\* float(row[weight_col]) with the except clause of lines 652-655
RowWeight(cell) ==
    CASE cell.kind = "number" -> Float(cell.val)
      [] cell.kind = "nan" -> NaN
      [] OTHER -> Float(1)

\* the edge data a row adds, lines 651-658
RowData(c, cell) == IF c > 2 THEN WeightData(RowWeight(cell)) ELSE NoData

\* line 648
RowSkipped(src, tgt) ==
    src = <<>> \/ tgt = <<>> \/ src = <<"n", "a", "n">> \/ tgt = <<"n", "a", "n">>

\* one iteration of the loop of lines 644-658
BuildRow ==
    /\ pc = "build"
    /\ UNCHANGED beside_engine
    /\ i < nrows
    /\ \E src_cell \in IdCells(ncols), tgt_cell \in IdCells(ncols),
          weight_cell \in WeightCells(ncols) :
         LET src == Strip(Str(src_cell))
             tgt == Strip(Str(tgt_cell))
         IN IF RowSkipped(src, tgt)
            THEN UNCHANGED <<G, overwritten, last_cell>>
            ELSE /\ G' = add_edge(G, src, tgt, RowData(ncols, weight_cell))
                 /\ overwritten' = (\/ overwritten
                                     \/ /\ {src, tgt} \in DOMAIN last_cell
                                        /\ last_cell[{src, tgt}] # weight_cell)
                 /\ last_cell' = SetKey(last_cell, {src, tgt}, weight_cell)
    /\ i' = i + 1
    /\ UNCHANGED <<pc, request, biomarkers, file_exists, ncols, nrows, bi,
                   candidates_map, subgraph_nodes, dgidb_calls, dgidb_outcome, sent_genes,
                   dgidb_nodes, dgidb_mapping,
                   exc, response>>

\* lines 660-663, when the rows are exhausted
StartTraversal ==
    /\ pc = "build"
    /\ UNCHANGED beside_engine
    /\ i = nrows
    /\ candidates_map' = EmptyMap
    /\ subgraph_nodes' = {}
    /\ bi' = 0
    /\ pc' = "bfs"
    /\ UNCHANGED <<request, biomarkers, file_exists, ncols, nrows, i, G, overwritten,
                   last_cell, dgidb_calls, dgidb_outcome, sent_genes,
                   dgidb_nodes, dgidb_mapping, exc, response>>

\* the biomarker is put among the subgraph nodes before the graph is asked
\* whether it holds it
Traverse_add_before_check(adj, cmap, nodes, biomarker) ==
    IF biomarker \notin DOMAIN adj
    THEN [cmap |-> cmap, nodes |-> nodes \cup {biomarker}]
    ELSE LET v == VisitBiomarker(adj, cmap, biomarker)
         IN [cmap |-> v.cmap, nodes |-> nodes \cup {biomarker} \cup v.visited]

\* lines 666-690: a biomarker that is no node of G is passed over
Traverse(adj, cmap, nodes, biomarker) ==
    IF biomarker \notin DOMAIN adj
    THEN [cmap |-> cmap, nodes |-> nodes]
    ELSE LET v == VisitBiomarker(adj, cmap, biomarker)
         IN [cmap |-> v.cmap, nodes |-> nodes \cup {biomarker} \cup v.visited]

\* the loop does not move on from a biomarker that is no node of G
VisitNextBiomarker_stays_on_absent ==
    /\ pc = "bfs"
    /\ UNCHANGED beside_engine
    /\ bi < Len(biomarkers)
    /\ LET t == Traverse(G, candidates_map, subgraph_nodes, biomarkers[bi + 1])
       IN /\ candidates_map' = t.cmap
          /\ subgraph_nodes' = t.nodes
    /\ bi' = IF biomarkers[bi + 1] \in DOMAIN G THEN bi + 1 ELSE bi
    /\ UNCHANGED <<pc, request, biomarkers, file_exists, ncols, nrows, i, G,
                   overwritten, last_cell, dgidb_calls, dgidb_outcome, sent_genes,
                   dgidb_nodes, dgidb_mapping, exc, response>>

\* one iteration of the loop of lines 665-690
VisitNextBiomarker ==
    /\ pc = "bfs"
    /\ UNCHANGED beside_engine
    /\ bi < Len(biomarkers)
    /\ LET t == Traverse(G, candidates_map, subgraph_nodes, biomarkers[bi + 1])
       IN /\ candidates_map' = t.cmap
          /\ subgraph_nodes' = t.nodes
    /\ bi' = bi + 1
    /\ UNCHANGED <<pc, request, biomarkers, file_exists, ncols, nrows, i, G,
                   overwritten, last_cell, dgidb_calls, dgidb_outcome, sent_genes,
                   dgidb_nodes, dgidb_mapping, exc, response>>

\* lines 692-716: the DGIdb call, ending in any of the replies, and the
\* enrichment of every candidate
Enrich ==
    /\ pc = "bfs"
    /\ UNCHANGED beside_engine
    /\ bi = Len(biomarkers)
    /\ \E reply \in DgidbReplies :
         LET r == fetch_dgidb_drugs_via_graphql(DOMAIN candidates_map, reply)
         IN /\ dgidb_calls' = dgidb_calls + (IF r.called THEN 1 ELSE 0)
            /\ dgidb_outcome' = IF r.called THEN reply.kind ELSE "not_called"
            /\ sent_genes' = IF r.called THEN UniqueGenes(DOMAIN candidates_map) ELSE <<>>
            /\ dgidb_nodes' = IF r.called THEN reply.nodes ELSE <<>>
            /\ dgidb_mapping' = r.map
            /\ IF r.raised # ""
               THEN /\ Raise(r.raised)
                    /\ UNCHANGED candidates_map
               ELSE /\ candidates_map' =
                         [g \in DOMAIN candidates_map |->
                             Enriched(candidates_map[g], r.map)]
                    /\ pc' = "assemble"
                    /\ exc' = exc
    /\ UNCHANGED <<request, biomarkers, file_exists, ncols, nrows, i, G, overwritten,
                   last_cell, bi, subgraph_nodes, response>>

\* lines 718-758; the dict candidates_map is iterated in the order its keys
\* were inserted, which is any order here
Assemble ==
    /\ pc = "assemble"
    /\ UNCHANGED beside_engine
    /\ \E order \in Orders(DOMAIN candidates_map) :
         response' = SuccessResponse(G, biomarkers, subgraph_nodes, candidates_map, order)
    /\ pc' = "finally"
    /\ UNCHANGED <<request, biomarkers, file_exists, ncols, nrows, i, G, overwritten,
                   last_cell, bi, candidates_map, subgraph_nodes, dgidb_calls,
                   dgidb_outcome, sent_genes,
                   dgidb_nodes, dgidb_mapping, exc>>

\* the file is removed only when the body ended without an exception
Finally_keeps_file_on_error ==
    /\ pc = "finally"
    /\ UNCHANGED beside_engine
    /\ file_exists' = (exc # "")
    /\ pc' = IF exc # "" THEN "except" ELSE "done"
    /\ UNCHANGED <<request, biomarkers, ncols, nrows, i, G, overwritten, last_cell,
                   bi, candidates_map, subgraph_nodes, dgidb_calls, dgidb_outcome, sent_genes,
                   dgidb_nodes, dgidb_mapping,
                   exc, response>>

\* lines 760-762
Finally ==
    /\ pc = "finally"
    /\ UNCHANGED beside_engine
    /\ file_exists' = FALSE
    /\ pc' = IF exc # "" THEN "except" ELSE "done"
    /\ UNCHANGED <<request, biomarkers, ncols, nrows, i, G, overwritten, last_cell,
                   bi, candidates_map, subgraph_nodes, dgidb_calls, dgidb_outcome, sent_genes,
                   dgidb_nodes, dgidb_mapping,
                   exc, response>>

\* lines 764-766
Except ==
    /\ pc = "except"
    /\ UNCHANGED beside_engine
    /\ Return(ErrorResponse(500, exc))
    /\ UNCHANGED <<request, biomarkers, file_exists, ncols, nrows, i, G, overwritten,
                   last_cell, bi, candidates_map, subgraph_nodes, dgidb_calls,
                   dgidb_outcome, sent_genes,
                   dgidb_nodes, dgidb_mapping, exc>>

Next ==
    \/ RejectNoFile
    \/ RejectNotCsv
    \/ RejectBadJson
    \/ RejectNoBiomarkers
    \/ SaveUpload
    \/ ReadCsvFails
    \/ ReadCsv
    \/ BuildRow
    \/ StartTraversal
    \/ VisitNextBiomarker
    \/ Enrich
    \/ Assemble
    \/ Finally
    \/ Except

Spec == Init /\ [][Next]_vars

\* line 629 for the tables of at most LiveRows rows
ReadSmallCsv == ReadCsv /\ nrows' <= LiveRows

\* the handler over the tables of at most LiveRows rows
LiveNext ==
    \/ RejectNoFile
    \/ RejectNotCsv
    \/ RejectBadJson
    \/ RejectNoBiomarkers
    \/ SaveUpload
    \/ ReadCsvFails
    \/ ReadSmallCsv
    \/ BuildRow
    \/ StartTraversal
    \/ VisitNextBiomarker
    \/ Enrich
    \/ Assemble
    \/ Finally
    \/ Except

\* the worker thread that runs the handler is scheduled until the handler
\* returns: a step that is possible is eventually taken
FairSpec == Init /\ [][LiveNext]_vars /\ WF_vars(LiveNext)


-----------------------------------------------------------------------------
(* Two requests to drug_repurposing_engine served at the same time.  Each   *)
(* runs the handler on its own thread with its own locals; what they share  *)
(* is default_storage.  The work between reading the table and the finally  *)
(* clause touches locals only and is one step here.                         *)

Uuids == {"u1", "u2"}
Names == {"a.csv", "b.csv"}
\* the endings get_alternative_name puts into a name that is taken
AltSuffixes == {"x", "y"}

\* f'tmp/ppi_{uuid.uuid4().hex}_{uploaded_file.name}', line 624
file_path(u, name) == [uuid |-> u, name |-> name, alt |-> ""]

\* the names default_storage.save may store the upload under, line 625: the
\* name asked for when it is free, else one that is (Django's
\* get_available_name; the file is created exclusively)
AvailableNames(files, path) ==
    IF path \notin DOMAIN files THEN {path}
    ELSE {[path EXCEPT !.alt = a] : a \in AltSuffixes} \ DOMAIN files

\* every file of tmp/ with the upload's name is removed
remove_by_upload_name(files, path) ==
    [f \in {g \in DOMAIN files : g.name # path.name} |-> files[f]]

\* if os.path.exists(full_path): os.remove(full_path), lines 761-762
remove_if_exists(files, path) ==
    [f \in (DOMAIN files) \ {path} |-> files[f]]

\* the requests served: one that passes validation per upload name, and one
\* per way of failing it
CcRequest(has_file, is_csv, bms, name) ==
    [has_file |-> has_file, is_csv |-> is_csv, biomarkers |-> bms, name |-> name]

CcRequests ==
    {CcRequest(TRUE, TRUE, "ok", n) : n \in Names}
    \cup {CcRequest(FALSE, TRUE, "ok", "a.csv"), CcRequest(TRUE, FALSE, "ok", "a.csv"),
          CcRequest(TRUE, TRUE, "invalid", "a.csv"), CcRequest(TRUE, TRUE, "empty", "a.csv")}

\* lines 599-621: the request passes validation
Valid(req) == req.has_file /\ req.is_csv /\ req.biomarkers = "ok"

\* the message of the first check of lines 599-621 that fails
Rejection(req) ==
    IF ~req.has_file THEN "No PPI file uploaded (ppi_file required)"
    ELSE IF ~req.is_csv THEN "Only CSV files are allowed"
    ELSE IF req.biomarkers = "invalid" THEN "Invalid biomarkers JSON"
    ELSE "At least one biomarker is required"

\* the response built from the table of an upload, line 758
TableResponse(upload) == [http |-> 200, error |-> "", table |-> upload]

\* an error response
CcError(code, message) == [http |-> code, error |-> message, table |-> NoUpload]

\* a file another request left behind in tmp/
StalePath == file_path("u1", "a.csv")

ConcurrentInit ==
    /\ EngineAtRest /\ AnalysisAtRest /\ WorkflowAtRest
    /\ storage \in {EmptyMap, [f \in {StalePath} |-> "old"]}
    /\ cc_request \in [Procs -> CcRequests]
    /\ cc_pc = [p \in Procs |-> "start"]
    /\ cc_path = [p \in Procs |-> NoPath]
    /\ cc_read = [p \in Procs |-> NoUpload]
    /\ cc_exc = [p \in Procs |-> ""]
    /\ cc_response = [p \in Procs |-> NoResponse]

\* the upload is saved before the request is validated, and stays
CcReject_after_save(p) ==
    /\ cc_pc[p] = "start"
    /\ ~Valid(cc_request[p])
    /\ \E u \in Uuids :
         \E saved \in AvailableNames(storage, file_path(u, cc_request[p].name)) :
             storage' = SetKey(storage, saved, p)
    /\ cc_response' = [cc_response EXCEPT ![p] = CcError(400, Rejection(cc_request[p]))]
    /\ cc_pc' = [cc_pc EXCEPT ![p] = "done"]
    /\ UNCHANGED <<cc_request, cc_path, cc_read, cc_exc>>
    /\ UNCHANGED beside_concurrent

\* lines 599-621 for a request that fails a check
CcReject(p) ==
    /\ cc_pc[p] = "start"
    /\ ~Valid(cc_request[p])
    /\ cc_response' = [cc_response EXCEPT ![p] = CcError(400, Rejection(cc_request[p]))]
    /\ cc_pc' = [cc_pc EXCEPT ![p] = "done"]
    /\ UNCHANGED <<storage, cc_request, cc_path, cc_read, cc_exc>>
    /\ UNCHANGED beside_concurrent

\* lines 623-626
CcSave(p) ==
    /\ cc_pc[p] = "start"
    /\ Valid(cc_request[p])
    /\ \E u \in Uuids :
         \E saved \in AvailableNames(storage, file_path(u, cc_request[p].name)) :
             /\ storage' = SetKey(storage, saved, p)
             /\ cc_path' = [cc_path EXCEPT ![p] = saved]
    /\ cc_pc' = [cc_pc EXCEPT ![p] = "read"]
    /\ UNCHANGED <<cc_request, cc_read, cc_exc, cc_response>>
    /\ UNCHANGED beside_concurrent

\* lines 629-636: the table is read from full_path; the read may fail, and
\* the table may be empty or have one column
CcRead(p) ==
    /\ cc_pc[p] = "read"
    /\ IF cc_path[p] \notin DOMAIN storage
       THEN /\ cc_exc' = [cc_exc EXCEPT ![p] = "FileNotFoundError"]
            /\ cc_pc' = [cc_pc EXCEPT ![p] = "finally"]
            /\ UNCHANGED cc_read
       ELSE /\ cc_read' = [cc_read EXCEPT ![p] = storage[cc_path[p]]]
            /\ \E e \in {"", "read_csv error", "PPI CSV file is empty",
                         "PPI CSV must have at least two columns (source, target)"} :
                 /\ cc_exc' = [cc_exc EXCEPT ![p] = e]
                 /\ cc_pc' = [cc_pc EXCEPT ![p] = IF e = "" THEN "work" ELSE "finally"]
    /\ UNCHANGED <<storage, cc_request, cc_path, cc_response>>
    /\ UNCHANGED beside_concurrent

\* lines 638-758: graph, traversal, enrichment and assembly, on locals; the
\* enrichment may raise
CcWork(p) ==
    /\ cc_pc[p] = "work"
    /\ \E e \in {"", "KeyError", "AttributeError"} :
         /\ cc_exc' = [cc_exc EXCEPT ![p] = e]
         /\ cc_response' = [cc_response EXCEPT ![p] =
                               IF e = "" THEN TableResponse(cc_read[p]) ELSE @]
    /\ cc_pc' = [cc_pc EXCEPT ![p] = "finally"]
    /\ UNCHANGED <<storage, cc_request, cc_path, cc_read>>
    /\ UNCHANGED beside_concurrent

\* lines 760-762
CcFinally(p) ==
    /\ cc_pc[p] = "finally"
    /\ storage' = remove_if_exists(storage, cc_path[p])
    /\ cc_pc' = [cc_pc EXCEPT ![p] = IF cc_exc[p] # "" THEN "except" ELSE "done"]
    /\ UNCHANGED <<cc_request, cc_path, cc_read, cc_exc, cc_response>>
    /\ UNCHANGED beside_concurrent

\* lines 764-766
CcExcept(p) ==
    /\ cc_pc[p] = "except"
    /\ cc_response' = [cc_response EXCEPT ![p] = CcError(500, cc_exc[p])]
    /\ cc_pc' = [cc_pc EXCEPT ![p] = "done"]
    /\ UNCHANGED <<storage, cc_request, cc_path, cc_read, cc_exc>>
    /\ UNCHANGED beside_concurrent

ConcurrentNext ==
    \E p \in Procs :
        \/ CcReject(p)
        \/ CcSave(p)
        \/ CcRead(p)
        \/ CcWork(p)
        \/ CcFinally(p)
        \/ CcExcept(p)

ConcurrentSpec == ConcurrentInit /\ [][ConcurrentNext]_vars

-----------------------------------------------------------------------------
(* analyze_classification (views.py lines 237-357) and generate_xai_graph    *)
(* (lines 184-232): validation, the saved upload, the transaction around    *)
(* the analysis, the responses.                                             *)

\* a request that passes validation: which handler it goes to, the model
\* asked for, where the analysis raises (nowhere for "none"), and whether
\* the patient is already in the database
AnBase(handler, model_type, fails, known) ==
    [handler |-> handler, has_file |-> TRUE, is_csv |-> TRUE, age |-> "ok",
     has_gender |-> TRUE, model_type |-> model_type, loaded |-> TRUE,
     fails |-> fails, patient_known |-> known]

Handlers == {"analyze", "xai"}
ModelTypes == {"lung_cancer", "colorectal_cancer", "liver_cancer"}
\* the places where the analysis can raise
FailurePoints == {"none", "read_csv", "empty", "preprocess", "predict", "db"}

AnRequests ==
    {AnBase(h, m, f, k) : h \in Handlers, m \in ModelTypes, f \in FailurePoints,
                          k \in BOOLEAN}
    \cup UNION {{[AnBase(h, "lung_cancer", "none", FALSE) EXCEPT !.has_file = FALSE],
                 [AnBase(h, "lung_cancer", "none", FALSE) EXCEPT !.is_csv = FALSE],
                 [AnBase(h, "lung_cancer", "none", FALSE) EXCEPT !.age = "absent"],
                 [AnBase(h, "lung_cancer", "none", FALSE) EXCEPT !.has_gender = FALSE],
                 [AnBase(h, "lung_cancer", "none", FALSE) EXCEPT !.age = "text"],
                 [AnBase(h, "lung_cancer", "none", FALSE) EXCEPT !.age = "out_of_range"],
                 [AnBase(h, "absent", "none", FALSE) EXCEPT !.age = "ok"],
                 [AnBase(h, "other", "none", FALSE) EXCEPT !.age = "ok"],
                 [AnBase(h, "lung_cancer", "none", FALSE) EXCEPT !.loaded = FALSE]} :
                h \in Handlers}

\* no response: the request goes on
Passes == NoResponse

\* lines 241-274: the response of the first check of analyze_classification
\* that fails, Passes when none does; a missing model_type is 'lung_cancer'
AnalyzeValidation(req) ==
    IF ~req.has_file THEN ErrorResponse(400, "No file uploaded")
    ELSE IF ~req.is_csv THEN ErrorResponse(400, "Only CSV files are allowed")
    ELSE IF req.age = "absent" \/ ~req.has_gender
         THEN ErrorResponse(400, "Age and gender are required")
    ELSE IF req.age = "text" THEN ErrorResponse(400, "Age must be a number")
    ELSE IF req.age = "out_of_range" THEN ErrorResponse(400, "Invalid age")
    ELSE IF req.model_type \notin ModelTypes \cup {"absent"}
         THEN ErrorResponse(400, "Unknown model type")
    ELSE IF ~req.loaded THEN ErrorResponse(500, "ML model not loaded.")
    ELSE Passes

\* lines 187-209: the same for generate_xai_graph, which reads no age and no
\* gender and requires model_type
XaiValidation(req) ==
    IF ~req.has_file THEN ErrorResponse(400, "No file uploaded")
    ELSE IF ~req.is_csv THEN ErrorResponse(400, "Only CSV files are allowed")
    ELSE IF req.model_type = "absent" THEN ErrorResponse(400, "Model type is required")
    ELSE IF req.model_type \notin ModelTypes THEN ErrorResponse(400, "Unknown model type")
    ELSE IF ~req.loaded THEN ErrorResponse(500, "Model not loaded")
    ELSE Passes

Validation(req) ==
    IF req.handler = "analyze" THEN AnalyzeValidation(req) ELSE XaiValidation(req)

\* the rows of the database: patient ids and analysis sessions
Rows(patients, sessions) == [patients |-> patients, sessions |-> sessions]

\* an AnalysisSession row
Session(id, status, message) == [id |-> id, status |-> status, error_message |-> message]

\* session.status = status; session.error_message = message; session.save()
SaveSession(rows, id, status, message) ==
    Rows(rows.patients,
         {x \in rows.sessions : x.id # id} \cup {Session(id, status, message)})

\* leaving the block `with transaction.atomic()` of line 279 by an exception:
\* the writes made inside it are rolled back
leave_atomic_by_exception(committed, seen) == committed

AnalysisInit ==
    /\ EngineAtRest /\ ConcurrentAtRest /\ WorkflowAtRest
    /\ an_pc = "start"
    /\ an_request \in AnRequests
    /\ an_file = FALSE
    /\ an_db = IF an_request.patient_known
               THEN Rows({"PAT"}, {Session("s0", "completed", "")})
               ELSE Rows({}, {})
    /\ an_tx = an_db
    /\ an_exc = ""
    /\ an_response = NoResponse

\* lines 241-274 and 187-209 for a request that fails a check
AnReject ==
    /\ an_pc = "start"
    /\ Validation(an_request) # Passes
    /\ an_response' = Validation(an_request)
    /\ an_pc' = "done"
    /\ UNCHANGED <<an_request, an_file, an_db, an_tx, an_exc>>
    /\ UNCHANGED beside_analysis

\* lines 276-277 and 211-213: the upload is saved
AnSave ==
    /\ an_pc = "start"
    /\ Validation(an_request) = Passes
    /\ an_file' = TRUE
    /\ an_pc' = IF an_request.handler = "analyze" THEN "begin" ELSE "shap"
    /\ UNCHANGED <<an_request, an_db, an_tx, an_exc, an_response>>
    /\ UNCHANGED beside_analysis

\* lines 279-292: the transaction opens, the patient is fetched or created
\* and the session row is created with status 'processing'
AnBegin ==
    /\ an_pc = "begin"
    /\ an_tx' = Rows(an_db.patients \cup {"PAT"},
                     an_db.sessions \cup {Session("s1", "processing", "")})
    /\ an_pc' = "analysis"
    /\ UNCHANGED <<an_request, an_file, an_db, an_exc, an_response>>
    /\ UNCHANGED beside_analysis

\* lines 294-344 when nothing raises: the results are stored, the session is
\* saved as 'completed', the file is removed and the response is built
AnAnalysisSucceeds ==
    /\ an_pc = "analysis"
    /\ an_request.fails = "none"
    /\ an_tx' = SaveSession(an_tx, "s1", "completed", "")
    /\ an_file' = FALSE
    /\ an_response' = [http |-> 200, error |-> ""]
    /\ an_pc' = "commit"
    /\ UNCHANGED <<an_request, an_db, an_exc>>
    /\ UNCHANGED beside_analysis

\* lines 294-326 when a statement raises: control passes to line 346
AnAnalysisRaises ==
    /\ an_pc = "analysis"
    /\ an_request.fails # "none"
    /\ an_exc' = an_request.fails
    /\ an_pc' = "inner_except"
    /\ UNCHANGED <<an_request, an_file, an_db, an_tx, an_response>>
    /\ UNCHANGED beside_analysis

\* lines 346-351: the session is saved as 'failed' and the exception is
\* raised again, which leaves the atomic block
AnInnerExcept ==
    /\ an_pc = "inner_except"
    /\ an_tx' = leave_atomic_by_exception(
                    an_db, SaveSession(an_tx, "s1", "failed", an_exc))
    /\ an_pc' = "outer_except"
    /\ UNCHANGED <<an_request, an_file, an_db, an_exc, an_response>>
    /\ UNCHANGED beside_analysis

\* the return of line 344 leaves the atomic block: the writes are committed
AnCommit ==
    /\ an_pc = "commit"
    /\ an_db' = an_tx
    /\ an_pc' = "done"
    /\ UNCHANGED <<an_request, an_file, an_tx, an_exc, an_response>>
    /\ UNCHANGED beside_analysis

\* lines 215-231 of generate_xai_graph: the table is read, the plot is made,
\* the file is removed and the response is built; a statement that raises
\* passes control to line 233
XaiShap ==
    /\ an_pc = "shap"
    /\ IF an_request.fails = "none"
       THEN /\ an_file' = FALSE
            /\ an_response' = [http |-> 200, error |-> ""]
            /\ an_pc' = "done"
            /\ UNCHANGED an_exc
       ELSE /\ an_exc' = an_request.fails
            /\ an_pc' = "outer_except"
            /\ UNCHANGED <<an_file, an_response>>
    /\ UNCHANGED <<an_request, an_db, an_tx>>
    /\ UNCHANGED beside_analysis

\* lines 353-355 and 233-235: the 500 response
AnOuterExcept ==
    /\ an_pc = "outer_except"
    /\ an_response' = ErrorResponse(500, an_exc)
    /\ an_pc' = "done"
    /\ UNCHANGED <<an_request, an_file, an_db, an_tx, an_exc>>
    /\ UNCHANGED beside_analysis

AnalysisNext ==
    \/ AnReject
    \/ AnSave
    \/ AnBegin
    \/ AnAnalysisSucceeds
    \/ AnAnalysisRaises
    \/ AnInnerExcept
    \/ AnCommit
    \/ XaiShap
    \/ AnOuterExcept

AnalysisSpec == AnalysisInit /\ [][AnalysisNext]_vars

-----------------------------------------------------------------------------
(* The multi-agent workflow: build_graph of "multi agent rag/graph.py" and  *)
(* route_question of agents/router_agent.py.  The compiled graph runs the   *)
(* entry node, merges the keys each node returns into the state and follows *)
(* the edge, or the conditional edge, that leaves the node.                 *)

\* str.lower over the letters the replies are written in
LowerChar(c) ==
    CASE c = "G" -> "g" [] c = "E" -> "e" [] c = "N" -> "n"
      [] c = "D" -> "d" [] c = "R" -> "r" [] c = "U" -> "u"
      [] OTHER -> c

Lower(s) == [k \in 1..Len(s) |-> LowerChar(s[k])]

\* w in s
Contains(s, w) == \E k \in 1..(Len(s) - Len(w) + 1) : SubSeq(s, k, k + Len(w) - 1) = w

\* what the LLM may answer to the router prompt
RouterReplies ==
    {<<"g", "e", "n", "e">>,
     <<"d", "r", "u", "g">>,
     <<"b", "o", "t", "h">>,
     <<" ", "D", "R", "U", "G", " ">>,
     <<"G", "e", "n", "e">>,
     <<"g", "e", "n", "e", ",", " ", "d", "r", "u", "g">>,
     <<"n", "o", "n", "e">>,
     <<>>}

\* route_question, router_agent.py lines 14-22, on the reply of the LLM
route_question(reply) ==
    LET text == Strip(Lower(reply))
    IN IF Contains(text, <<"g", "e", "n", "e">>) /\ Contains(text, <<"d", "r", "u", "g">>)
       THEN "both"
       ELSE IF Contains(text, <<"d", "r", "u", "g">>) THEN "drug"
       ELSE "gene"

\* the mapping of add_conditional_edges, graph.py lines 90-98
ConditionalEdges == [gene |-> "gene", drug |-> "drug", both |-> "drug"]

\* the node that follows a node: graph.py lines 84, 90-98, 101, 104, 107
Successor(node, state) ==
    CASE node = "retrieve" -> "route"
      [] node = "route" -> ConditionalEdges[state["route"]]
      [] node = "gene" -> "summarize"
      [] node = "drug" -> "summarize"
      [] node = "summarize" -> "END"

\* the keys a node returns merged into the state
Merge(state, key, value) == SetKey(state, key, value)

\* state.get(key, "")
Get(state, key) == IF key \in DOMAIN state THEN state[key] ELSE ""

Questions == {"q1", "q2"}
\* what the retriever and the agents' LLM calls may return
Retrievals == {"no docs", "docs"}
Answers == {"answer", "no answer"}

\* graph.invoke({"question": question}); the entry point is retrieve
WorkflowInit ==
    /\ EngineAtRest /\ ConcurrentAtRest /\ AnalysisAtRest
    /\ wf_node = "retrieve"
    /\ wf_state \in {[k \in {"question"} |-> q] : q \in Questions}
    /\ wf_reply \in RouterReplies
    /\ wf_visited = <<>>

\* one node has run: its keys are merged and its edge is followed
Ran(node, key, value) ==
    /\ wf_state' = Merge(wf_state, key, value)
    /\ wf_node' = Successor(node, wf_state')
    /\ wf_visited' = Append(wf_visited, node)
    /\ UNCHANGED wf_reply
    /\ UNCHANGED beside_workflow

\* graph.py lines 27-32
WfRetrieve ==
    /\ wf_node = "retrieve"
    /\ \E docs \in Retrievals : Ran("retrieve", "docs", docs)

\* graph.py lines 34-38
WfRoute ==
    /\ wf_node = "route"
    /\ Ran("route", "route", route_question(wf_reply))

\* graph.py lines 40-45
WfGene ==
    /\ wf_node = "gene"
    /\ \E a \in Answers : Ran("gene", "gene_answer", a)

\* graph.py lines 47-52
WfDrug ==
    /\ wf_node = "drug"
    /\ \E a \in Answers : Ran("drug", "drug_answer", a)

\* graph.py lines 54-67: the summary is made of the two answers, "" for one
\* that is not in the state
WfSummarize ==
    /\ wf_node = "summarize"
    /\ \E a \in Answers :
         Ran("summarize", "final_answer",
             <<Get(wf_state, "gene_answer"), Get(wf_state, "drug_answer"), a>>)

WorkflowNext ==
    \/ WfRetrieve
    \/ WfRoute
    \/ WfGene
    \/ WfDrug
    \/ WfSummarize

WorkflowSpec == WorkflowInit /\ [][WorkflowNext]_vars

-----------------------------------------------------------------------------
(* Vocabulary of the properties *)

Succeeded == response.http = 200

A == <<"A">>
B == <<"B">>
C == <<"C">>
D == <<"D">>

\* the entries of a sequence
Range(seq) == {seq[k] : k \in 1..Len(seq)}

\* the seeds that are nodes of the graph
SeedsInGraph == Range(biomarkers) \cap DOMAIN G

\* there is a walk of d edges from u to v
HasWalk(adj, u, v, d) ==
    \E p \in [1..(d + 1) -> DOMAIN adj] :
        /\ p[1] = u
        /\ p[d + 1] = v
        /\ \A j \in 1..d : p[j + 1] \in DOMAIN adj[p[j]]

\* v is within the hop limit of u
Within(adj, u, v) == \E d \in 0..max_hops : HasWalk(adj, u, v, d)

\* the hop distance from u to v, for v within the hop limit of u
HopDistance(adj, u, v) ==
    CHOOSE d \in 0..max_hops :
        HasWalk(adj, u, v, d) /\ \A e \in 0..(d - 1) : ~HasWalk(adj, u, v, e)

\* the targets of the returned candidates
Targets == {response.candidates[k].target : k \in 1..Len(response.candidates)}

-----------------------------------------------------------------------------
(* C1..C5: the candidate list *)

\* C1: every record of the returned candidate list has a hop distance d with
\* 0 < d <= max_hops.
C1_HopsWithinLimit ==
    Succeeded =>
        \A k \in 1..Len(response.candidates) :
            /\ response.candidates[k].hops_from_biomarker \in Int
            /\ 0 < response.candidates[k].hops_from_biomarker
            /\ response.candidates[k].hops_from_biomarker <= max_hops

\* C1 witness: the path A-B-C-D with the seed A gives B at hop 1 and C at hop
\* 2, and D, three hops away, is left out.
C1_Witness ==
    /\ Succeeded
    /\ biomarkers = <<A>>
    /\ EdgePairs(G) = {{A, B}, {B, C}, {C, D}}
    /\ Len(response.candidates) = 2
    /\ response.candidates[1].target = B
    /\ response.candidates[1].hops_from_biomarker = 1
    /\ response.candidates[2].target = C
    /\ response.candidates[2].hops_from_biomarker = 2

\* C2: no gene of the seed list is the target of a record of the returned
\* candidate list.
C2_NoSeedAmongCandidates ==
    Succeeded => Targets \cap Range(biomarkers) = {}

\* C3: every candidate's hops_from_biomarker is the least hop distance from
\* the candidate to a seed present in the graph, and nearest_biomarker is the
\* first seed of the list at that distance.
C3_NearestSeed ==
    Succeeded =>
        \A k \in 1..Len(response.candidates) :
            LET c == response.candidates[k]
                near == {s \in SeedsInGraph : Within(G, s, c.target)}
                least == CHOOSE d \in {HopDistance(G, s, c.target) : s \in near} :
                            \A s \in near : d <= HopDistance(G, s, c.target)
                first == CHOOSE j \in 1..Len(biomarkers) :
                            /\ biomarkers[j] \in near
                            /\ HopDistance(G, biomarkers[j], c.target) = least
                            /\ \A h \in 1..(j - 1) :
                                  ~(/\ biomarkers[h] \in near
                                    /\ HopDistance(G, biomarkers[h], c.target) = least)
            IN /\ near # {}
               /\ c.hops_from_biomarker = least
               /\ c.nearest_biomarker = biomarkers[first]

\* C4: the candidate list holds exactly one record for each non-seed node
\* within the hop limit of a seed present in the graph, and no other record.
C4_ExactlyTheNonSeedNeighbours ==
    Succeeded =>
        /\ Targets = {n \in DOMAIN G :
                         /\ n \notin Range(biomarkers)
                         /\ \E s \in SeedsInGraph : Within(G, s, n)}
        /\ Len(response.candidates) = Cardinality(Targets)

\* C5: the returned list is in ascending order of hop distance, then
\* descending score, then ascending gene identifier, and the order is total:
\* two neighbouring records never have the same key, so the list is the one
\* sequence in that order whatever the order of discovery.
C5_SortedByTotalKey ==
    Succeeded =>
        \A k \in 1..(Len(response.candidates) - 1) :
            LET x == response.candidates[k]
                y == response.candidates[k + 1]
            IN \/ x.hops_from_biomarker < y.hops_from_biomarker
               \/ /\ x.hops_from_biomarker = y.hops_from_biomarker
                  /\ x.score > y.score
               \/ /\ x.hops_from_biomarker = y.hops_from_biomarker
                  /\ x.score = y.score
                  /\ StrLess(x.target, y.target)

\* C5 witness: three candidates, two of them with the same hop distance and
\* score, returned in the order of their identifiers.
C5_Witness ==
    /\ Succeeded
    /\ Len(response.candidates) = 3
    /\ response.candidates[1].hops_from_biomarker = response.candidates[2].hops_from_biomarker
    /\ response.candidates[1].score = response.candidates[2].score
    /\ response.candidates[1].target = B
    /\ response.candidates[2].target = C
    /\ response.candidates[3].hops_from_biomarker = 2


-----------------------------------------------------------------------------
(* C6..C9: the graph built from the rows *)

\* C6: the graph holds no self-loop and no edge with an empty identifier at
\* either end.
C6_NoSelfLoopNoEmptyEnd ==
    \A e \in EdgePairs(G) : Cardinality(e) = 2 /\ <<>> \notin e

\* C7: a pair {u, v} named by several rows, in either orientation, is one
\* edge of the graph, its weight is that of the last row naming it, and
\* num_edges counts it once.
C7_LastWeightWins ==
    /\ EdgePairs(G) = DOMAIN last_cell
    /\ \A u \in DOMAIN G : \A v \in DOMAIN G[u] :
          /\ G[u][v] = RowData(ncols, last_cell[{u, v}])
          /\ G[v][u] = G[u][v]
    /\ number_of_edges(G) = Cardinality(DOMAIN last_cell)
    /\ Succeeded => response.num_edges = Cardinality(DOMAIN last_cell)

\* C7 witness: rows with different weights named one pair, more rows were
\* read than there are edges, and the edge is reported with the weight of the
\* last of them.
C7_Witness ==
    /\ Succeeded
    /\ overwritten
    /\ response.num_edges < nrows
    /\ \E e \in response.edges :
          /\ last_cell[e.ends].kind = "number"
          /\ e.weight = Float(last_cell[e.ends].val)

\* C8: every edge of the reported subgraph has a numeric weight, which is 1.0
\* when the weight of its row is absent, empty or no number.
C8_DefaultWeight ==
    Succeeded =>
        \A e \in response.edges :
            /\ ~e.weight.nan
            /\ last_cell[e.ends].kind \in {"absent", "nan", "text"} => e.weight = Float(1)

\* C9: a request whose table is empty, has fewer than two columns or yields
\* no edge is answered with an error, never with status success.
C9_NoEdgesIsAnError ==
    (pc = "done" /\ (nrows = 0 \/ ncols < 2 \/ EdgePairs(G) = {})) =>
        /\ response.http \in {400, 500}
        /\ "status" \notin DOMAIN response

-----------------------------------------------------------------------------
(* C10: validation of the biomarker list *)

\* every entry of the caller's biomarker list is blank
OnlyBlankBiomarkers ==
    /\ request.has_file /\ request.is_csv
    /\ \/ /\ request.biomarkers.kind = "list"
          /\ \A k \in 1..Len(request.biomarkers.items) :
                \A j \in 1..Len(request.biomarkers.items[k]) :
                    request.biomarkers.items[k][j] = " "
       \/ /\ request.biomarkers.kind = "str"
          /\ \A j \in 1..Len(request.biomarkers.items[1]) :
                request.biomarkers.items[1][j] \in {" ", ","}

\* C10: a request whose biomarker list is empty after trimming and dropping
\* blank entries is rejected with an error; no file is saved, no graph is
\* built, no traversal runs and no enrichment call is made.
C10_EmptyBiomarkersRejected ==
    OnlyBlankBiomarkers =>
        /\ pc \in {"start", "done"}
        /\ pc = "done" => response = ErrorResponse(400, "At least one biomarker is required")
        /\ ~file_exists
        /\ G = EmptyMap /\ i = 0
        /\ bi = 0 /\ candidates_map = EmptyMap /\ subgraph_nodes = {}
        /\ dgidb_calls = 0

\* C10 witness: a list of blank entries has been rejected.
C10_Witness ==
    /\ pc = "done"
    /\ request.biomarkers.kind = "list"
    /\ Len(request.biomarkers.items) > 0
    /\ OnlyBlankBiomarkers
    /\ response.http = 400


-----------------------------------------------------------------------------
(* C11, C12: the seeds *)

\* the traversal loop has been entered
Traversing == pc = "bfs" \/ dgidb_outcome # "none"

\* the seeds the traversal loop has passed that are no node of the graph
AbsentSeeds == {biomarkers[k] : k \in 1..bi} \ DOMAIN G

\* C11: a seed that is no node of the graph causes no error: it adds no
\* candidate and no subgraph node, it is echoed in the biomarkers of the
\* response, and a request that fails after the traversal has begun fails in
\* the enrichment call, never in the traversal; when every seed is absent the
\* request returns status success.
C11_AbsentSeedIsPassedOver ==
    Traversing =>
        /\ \A s \in AbsentSeeds :
              /\ s \notin subgraph_nodes
              /\ s \notin DOMAIN candidates_map
              /\ \A g \in DOMAIN candidates_map : candidates_map[g].nearest_biomarker # s
              /\ Succeeded =>
                    /\ s \in Range(response.biomarkers)
                    /\ \A n \in response.nodes : n.id # s
                    /\ \A k \in 1..Len(response.candidates) :
                          response.candidates[k].nearest_biomarker # s
        /\ pc = "bfs" => exc = ""
        /\ exc # "" => dgidb_outcome \in {"ok", "null_data"}
        /\ (pc = "done" /\ SeedsInGraph = {}) =>
              /\ Succeeded
              /\ response.candidates = <<>>
              /\ response.nodes = {}

\* C11 witness: two seeds were sent, one of them no node of the graph, and the
\* request succeeded with a candidate found from the other.
C11_Witness ==
    /\ pc = "done"
    /\ Succeeded
    /\ Len(biomarkers) = 2
    /\ AbsentSeeds # {}
    /\ SeedsInGraph # {}
    /\ response.candidates # <<>>

\* the list with every entry after its first occurrence dropped
RECURSIVE Deduplicated(_)
Deduplicated(seq) ==
    IF seq = <<>> THEN <<>>
    ELSE LET front == Deduplicated(SubSeq(seq, 1, Len(seq) - 1))
         IN IF seq[Len(seq)] \in Range(front) THEN front
            ELSE Append(front, seq[Len(seq)])

\* C12: the biomarkers echoed in the response are the caller's list without
\* duplicates, every seed at the place of its first occurrence.
C12_BiomarkersDeduplicated ==
    Succeeded =>
        /\ response.biomarkers = Deduplicated(response.biomarkers)
        /\ response.biomarkers = Deduplicated(StripNonBlank(
               IF request.biomarkers.kind = "str" THEN Split(request.biomarkers.items[1])
               ELSE request.biomarkers.items))

-----------------------------------------------------------------------------
(* C13..C20: enrichment *)

\* the enrichment step is over
EnrichmentDone == dgidb_outcome # "none"

\* C13: per request there is no enrichment call when there is no candidate
\* and exactly one otherwise, whatever its result; the one query carries every
\* candidate gene.
C13_OneBatchedCall ==
    /\ dgidb_calls <= 1
    /\ ~EnrichmentDone => dgidb_calls = 0
    /\ EnrichmentDone =>
          /\ dgidb_calls = IF DOMAIN candidates_map = {} THEN 0 ELSE 1
          /\ dgidb_calls = 1 =>
                {Strip(g) : g \in DOMAIN candidates_map} = Range(sent_genes)

\* C13 witness: the one call failed, the request is over and no second call
\* was made.
C13_Witness ==
    /\ pc = "done"
    /\ dgidb_outcome = "network_error"
    /\ dgidb_calls = 1
    /\ Len(sent_genes) = 2


\* the ways the call fails: network error, status other than 200, body that
\* is no JSON, payload with an errors field
Failures == {"network_error", "http_error", "non_json", "errors"}

\* the fields of the candidates that enrichment does not write
Core(seq) ==
    [k \in 1..Len(seq) |->
        [target |-> seq[k].target,
         nearest_biomarker |-> seq[k].nearest_biomarker,
         hops_from_biomarker |-> seq[k].hops_from_biomarker,
         score |-> seq[k].score,
         evidence |-> seq[k].evidence]]

\* C14: when the call fails, the map returned is empty, the request ends with
\* status success, every candidate has drug_list empty, drug_count 0 and
\* drug_name null, and the candidates and their order are those of the run
\* in which the enrichment succeeds, for every reply that makes it succeed
\* (the response at hand comes from any iteration order of the candidate
\* map, the run compared with iterates it in the order of the gene names).
C14_FailedCallDegradesToEmpty ==
    dgidb_outcome \in Failures =>
        /\ exc = ""
        /\ dgidb_mapping = EmptyMap
        /\ pc = "done" => Succeeded
        /\ \A g \in DOMAIN candidates_map :
              /\ candidates_map[g].drug_list = <<>>
              /\ candidates_map[g].drug_count = 0
              /\ candidates_map[g].drug_name = None
        /\ Succeeded =>
              /\ \A k \in 1..Len(response.candidates) :
                    /\ response.candidates[k].drug_list = <<>>
                    /\ response.candidates[k].drug_count = 0
                    /\ response.candidates[k].drug_name = None
              /\ \A reply \in {x \in DgidbReplies : x.kind = "ok"} :
                    LET r == fetch_dgidb_drugs_via_graphql(DOMAIN candidates_map, reply)
                        order == SortedStrings(DOMAIN candidates_map)
                    IN r.raised = "" =>
                          Core(SortCandidates(
                              [k \in 1..Len(order) |->
                                  Enriched(candidates_map[order[k]], r.map)]))
                          = Core(response.candidates)

\* C14 witness: the service answered with a status other than 200 and the
\* request returned two candidates.
C14_Witness ==
    /\ pc = "done"
    /\ dgidb_outcome = "http_error"
    /\ Succeeded
    /\ Len(response.candidates) = 2

\* C15: after a reply with status 200 and a JSON body the enrichment has
\* raised nothing and the request returns status success.
C15_Http200NeverRaises ==
    dgidb_outcome \in {"ok", "null_data"} =>
        /\ exc = ""
        /\ pc = "done" => Succeeded

\* the interactions of a gene node that name a drug
Named(node) == SelectSeq(node, LAMBDA x : x.drug_name # "")

\* C16: a candidate whose identifier is not in upper case, for which the
\* reply carries interactions at its place in the gene list, gets those
\* interactions, and the request does not fail.
C16_CaseTolerantMatching ==
    dgidb_outcome = "ok" =>
        \A k \in 1..Len(sent_genes) :
            (/\ Upper(sent_genes[k]) # sent_genes[k]
             /\ k <= Len(dgidb_nodes)
             /\ Named(dgidb_nodes[k]) # <<>>) =>
                /\ exc = ""
                /\ candidates_map[sent_genes[k]].enriched
                /\ candidates_map[sent_genes[k]].drug_details = Named(dgidb_nodes[k])

\* C17: the gene list of the query has no two entries that are equal after
\* trimming and upper-casing, and every entry is in upper case.
C17_SentGenesUpperAndUnique ==
    \A j \in 1..Len(sent_genes) :
        /\ sent_genes[j] = Upper(sent_genes[j])
        /\ \A k \in 1..Len(sent_genes) :
              j # k => Upper(Strip(sent_genes[j])) # Upper(Strip(sent_genes[k]))

\* the interactions the returned map gives to a gene
Attributed(gene) == IF gene \in DOMAIN dgidb_mapping THEN dgidb_mapping[gene] ELSE <<>>

\* C18: the interactions of the k-th gene node of the reply go to the k-th
\* gene of the query and to no other; nodes beyond the gene list are dropped.
C18_AttributionByPosition ==
    (dgidb_outcome = "ok" /\ exc = "") =>
        \A k \in 1..Len(sent_genes) :
            Attributed(sent_genes[k]) =
                IF k <= Len(dgidb_nodes) THEN Named(dgidb_nodes[k]) ELSE <<>>

\* the first three of a list
FirstThree(seq) == SubSeq(seq, 1, IF Len(seq) < 3 THEN Len(seq) ELSE 3)

\* C19: drug_list is the drug names of the gene's interactions in descending
\* order of score, those without a score behind every scored one, cut to the
\* first three.
C19_TopThreeNullsLast ==
    Succeeded =>
        \A k \in 1..Len(response.candidates) :
            LET c == response.candidates[k]
                scored == SelectSeq(c.drug_details, LAMBDA x : ~x.score.null)
                unscored == SelectSeq(c.drug_details, LAMBDA x : x.score.null)
                top == FirstThree(SortDrugs(scored) \o unscored)
            IN c.drug_list = [j \in 1..Len(top) |-> top[j].drug_name]

\* C20: after enrichment drug_count is the length of drug_list and at most 3,
\* drug_name is the comma-joined drug_list or null when it is empty, and
\* drug_details is the whole list the map gives to the gene, in its order.
C20_DrugFields ==
    \A g \in DOMAIN candidates_map :
        LET c == candidates_map[g]
            whole == IF Attributed(g) # <<>> THEN Attributed(g) ELSE Attributed(Upper(g))
        IN c.enriched =>
            /\ c.drug_count = Len(c.drug_list)
            /\ c.drug_count <= 3
            /\ c.drug_count = IF Len(whole) < 3 THEN Len(whole) ELSE 3
            /\ c.drug_name = IF c.drug_list = <<>> THEN None ELSE Some(Join(c.drug_list))
            /\ c.drug_details = whole
            /\ Succeeded => \E k \in 1..Len(response.candidates) : response.candidates[k] = c

\* C20 witness: a candidate with four interactions is returned with three
\* drug names and all four details, the first detail not the best scored.
C20_Witness ==
    /\ Succeeded
    /\ \E k \in 1..Len(response.candidates) :
          LET c == response.candidates[k]
          IN /\ c.drug_count = 3
             /\ Len(c.drug_details) = 4
             /\ c.drug_details[1].drug_name # c.drug_list[1]
             /\ Len(c.drug_name.text) = 5


-----------------------------------------------------------------------------
(* C21, C22: the returned subgraph *)

\* the seeds that are nodes of the graph and the nodes within the hop limit
\* of one of them
ReachedSet == {v \in DOMAIN G : \E s \in SeedsInGraph : Within(G, s, v)}

\* the node ids and the edges of the returned subgraph
ReturnedNodes == {n.id : n \in response.nodes}
ReturnedEdges == {e.ends : e \in response.edges}

\* C21: the nodes of the returned subgraph are exactly the seeds present in
\* the graph and the nodes within the hop limit of one of them, and its edges
\* are exactly the edges of the full graph with both ends in that set.
C21_InducedSubgraph ==
    Succeeded =>
        /\ ReturnedNodes = ReachedSet
        /\ ReturnedEdges =
              {{u, v} : u \in ReachedSet, v \in ReachedSet} \cap EdgePairs(G)

\* C21 witness: a success whose subgraph holds three nodes and leaves out a
\* node and an edge of the full graph.
C21_Witness ==
    /\ Succeeded
    /\ Cardinality(ReturnedNodes) = 3
    /\ ReturnedNodes # DOMAIN G
    /\ ReturnedEdges # EdgePairs(G)
    /\ ReturnedEdges # {}

\* C22: the degree reported for a node is the number of returned edges
\* incident to it, and is_biomarker holds exactly for the nodes of the seed
\* list.
C22_DegreeWithinSubgraph ==
    Succeeded =>
        \A n \in response.nodes :
            /\ n.degree = Cardinality({e \in ReturnedEdges : n.id \in e})
            /\ n.is_biomarker = (n.id \in Range(biomarkers))


-----------------------------------------------------------------------------
(* C23: the temporary file *)

\* the positions of the handler between the save of line 625 and the finally
\* clause of line 760
InsideTry == pc \in {"read", "build", "bfs", "assemble", "finally"}

\* C23: the saved file exists only while the request is inside the try block
\* that follows the save; when the request has returned, on whatever path,
\* the file does not exist.
C23_FileRemovedOnReturn ==
    /\ file_exists => InsideTry
    /\ pc = "done" => ~file_exists
    /\ pc = "except" => ~file_exists

\* C23 witness: a request whose enrichment raised has returned its 500
\* response and the file it had saved is gone.
C23_Witness ==
    /\ pc = "done"
    /\ exc = "KeyError"
    /\ response.http = 500
    /\ ~file_exists


-----------------------------------------------------------------------------
(* C26: termination *)

\* the request has returned a response
Returned == pc = "done" /\ response # NoResponse

\* C26: every request eventually returns a response, success or error.
C26_EventuallyReturns == <>Returned

\* C26 witness: a request whose traversal went two hops and whose enrichment
\* call was cut off has returned its success response.
C26_Witness ==
    /\ Returned
    /\ Succeeded
    /\ dgidb_outcome = "network_error"
    /\ \E k \in 1..Len(response.candidates) :
          response.candidates[k].hops_from_biomarker = max_hops


-----------------------------------------------------------------------------
(* C25: reconciliation *)

\* the places in the seed list of the seeds that reach v within the hop limit
Reaching(v) ==
    {k \in 1..Len(biomarkers) :
        /\ biomarkers[k] \in DOMAIN G
        /\ biomarkers[k] # v
        /\ Within(G, biomarkers[k], v)}

\* the first place in the seed list among the nearest seeds of v
NearestPlace(v) ==
    CHOOSE k \in Reaching(v) :
        \A j \in Reaching(v) :
            \/ HopDistance(G, biomarkers[k], v) < HopDistance(G, biomarkers[j], v)
            \/ /\ HopDistance(G, biomarkers[k], v) = HopDistance(G, biomarkers[j], v)
               /\ k <= j

\* the traversal loop has consumed the whole seed list
TraversalDone == pc = "bfs" /\ bi = Len(biomarkers)

\* C25: in whatever order the BFS result of a seed is iterated, the loop
\* leaves the same candidate map; and once the traversal is done the nearest
\* seed and the hop distance of every candidate are a function of the graph
\* and the seed list alone: the first seed of the list among those at the
\* least distance, and that distance.
C25_ReconciliationDeterministic ==
    /\ (pc = "bfs" /\ bi < Len(biomarkers) /\ biomarkers[bi + 1] \in DOMAIN G) =>
          LET biomarker == biomarkers[bi + 1]
              lengths == single_source_shortest_path_length(G, biomarker, max_hops)
          IN \A order \in Orders(DOMAIN lengths) :
                 VisitInOrder(candidates_map, biomarker, lengths, order)
                 = VisitBiomarker(G, candidates_map, biomarker).cmap
    /\ TraversalDone =>
          /\ DOMAIN candidates_map = {v \in DOMAIN G : Reaching(v) # {}}
          /\ \A v \in DOMAIN candidates_map :
                /\ candidates_map[v].nearest_biomarker = biomarkers[NearestPlace(v)]
                /\ candidates_map[v].hops_from_biomarker =
                      HopDistance(G, biomarkers[NearestPlace(v)], v)

\* C25 witness: C is one hop from both seeds of the list A, D and is given
\* to A, the first of them; the BFS result of D met a map that already held
\* candidates.
C25_Witness ==
    /\ TraversalDone
    /\ biomarkers = <<A, D>>
    /\ C \in DOMAIN candidates_map
    /\ Cardinality(Reaching(C)) = 2
    /\ HopDistance(G, A, C) = HopDistance(G, D, C)
    /\ candidates_map[C].nearest_biomarker = A


-----------------------------------------------------------------------------
(* C24, C27: the shared storage *)

\* the responses request p can get when no other request is served
AloneResponses(p) ==
    IF ~Valid(cc_request[p])
    THEN {CcError(400, Rejection(cc_request[p]))}
    ELSE {TableResponse(p)}
         \cup {CcError(500, e) :
                  e \in {"read_csv error", "PPI CSV file is empty",
                         "PPI CSV must have at least two columns (source, target)",
                         "KeyError", "AttributeError"}}

\* request p is between its save and its finally clause
Holding(p) == cc_pc[p] \in {"read", "work", "finally"}

\* C24: of two requests served at the same time, in every interleaving, each
\* holds a path no other request holds, finds its file in place holding its
\* own upload until its own finally clause, reads no upload but its own, and
\* returns a response it can get when served alone.
C24_RequestsShareNothing ==
    \A p \in Procs :
        /\ cc_read[p] \in {NoUpload, p}
        /\ cc_exc[p] # "FileNotFoundError"
        /\ Holding(p) =>
              /\ cc_path[p] \in DOMAIN storage
              /\ storage[cc_path[p]] = p
        /\ \A q \in Procs \ {p} :
              (Holding(p) /\ Holding(q)) => cc_path[p] # cc_path[q]
        /\ cc_pc[p] = "done" => cc_response[p] \in AloneResponses(p)

\* C24 witness: two requests uploaded files of one name and drew the same
\* uuid; the second has been served and has removed its file while the first
\* is still before its read.
C24_Witness ==
    /\ cc_request["r1"].name = cc_request["r2"].name
    /\ cc_path["r1"].uuid = cc_path["r2"].uuid
    /\ cc_path["r1"] # NoPath
    /\ cc_pc["r1"] = "read"
    /\ cc_pc["r2"] = "done"
    /\ cc_response["r2"].http = 200

\* C27: the step that rejects a request during validation leaves the storage
\* as it is, and the request has saved no file.
C27_RejectionLeavesStorage ==
    [][\A p \in Procs :
          (/\ cc_pc[p] = "start"
           /\ ~Valid(cc_request[p])
           /\ cc_pc'[p] # "start") =>
              /\ storage' = storage
              /\ cc_path'[p] = NoPath
              /\ cc_pc'[p] = "done"
              /\ cc_response'[p].http = 400]_vars

\* C27 witness: a request has been rejected for its biomarkers while the file
\* of the other request and a file left earlier are in storage.
C27_Witness ==
    /\ cc_pc["r1"] = "done"
    /\ cc_response["r1"] = CcError(400, "At least one biomarker is required")
    /\ cc_path["r1"] = NoPath
    /\ cc_pc["r2"] = "work"
    /\ DOMAIN storage = {StalePath, cc_path["r2"]}
    /\ storage[StalePath] = "old"


-----------------------------------------------------------------------------
(* C28, C29: analyze_classification and generate_xai_graph *)

\* the analysis raised after the session row had been created
AnalysisFailed == an_request.handler = "analyze" /\ an_exc # ""

\* C28: when the analysis has raised after the session row was created, the
\* database holds, once the request has returned, that session with status
\* 'failed' and the text of the exception as error_message.
C28_FailedSessionKept ==
    (an_pc = "done" /\ AnalysisFailed) =>
        Session("s1", "failed", an_exc) \in an_db.sessions

\* C29: when a request that saved its upload has returned, the saved file
\* does not exist, whether the request succeeded or failed.
C29_UploadRemovedOnReturn ==
    an_pc = "done" => ~an_file


-----------------------------------------------------------------------------
(* C30: the multi-agent workflow *)

\* the agent nodes that have run, in order
AgentsRun == SelectSeq(wf_visited, LAMBDA n : n \in {"gene", "drug"})

\* C30: a run that has reached END visited retrieve, route, agent nodes and
\* summarize in that order; the route is one of gene, drug, both; and when
\* the route is both, the gene agent and the drug agent have both run and the
\* summary was made of a gene answer and a drug answer.
C30_WorkflowOrderAndBothAgents ==
    wf_node = "END" =>
        /\ wf_visited = <<"retrieve", "route">> \o AgentsRun \o <<"summarize">>
        /\ AgentsRun # <<>>
        /\ wf_state["route"] \in {"gene", "drug", "both"}
        /\ wf_state["route"] = "both" =>
              /\ "gene" \in Range(AgentsRun)
              /\ "drug" \in Range(AgentsRun)
              /\ "gene_answer" \in DOMAIN wf_state
              /\ "drug_answer" \in DOMAIN wf_state


====
